---- MODULE Spec2Model ----
(***************************************************************************)
(* Translation nodes of shed/simple.py: the extraction node                *)
(* (SimpleFromEventStream), the reconstruction node (SimpleToEventStream), *)
(* the graph walk (walk_to_translation) and the alignment node             *)
(* (AlignEventStreams), over a small dataflow graph.                       *)
(***************************************************************************)
EXTENDS Integers, Sequences, FiniteSets, TLC

VARIABLES
    upstreams,          \* node -> sequence of its upstream nodes
    downstreams,        \* node -> sequence of its downstream nodes
    principle,          \* extraction node -> its principle flag
    doc_type,           \* extraction node -> document type it extracts from
    data_address,       \* extraction node -> address (sequence of components)
    event_stream_name,  \* extraction node -> descriptor name filter
    start_uid,          \* node -> uid of its last start document (None = 0)
    descriptor_uids,    \* extraction node -> list of active descriptor uids
    subs,               \* node -> list of dependent reconstruction nodes
    state,              \* reconstruction node -> "stopped"/"started"/"described"
    start_document,     \* reconstruction node -> cached start document
    graph,              \* reconstruction node -> its dependency graph
    translation_nodes,  \* reconstruction node -> boundary nodes, in graph order
    principle_nodes,    \* reconstruction node -> principal boundary nodes
    constructed,        \* reconstruction node -> "no" / "ok" / "raised"
    emitted,            \* node -> log of the values the node emitted
    calls,              \* log of the method calls made on reconstruction nodes
    fed,                \* log of the documents the sources were given
    uidc,               \* number of uids generated so far
    err,                \* TRUE once an exception escaped an update call
    limit,              \* number of documents the sources may still be given
    align_args,         \* the alignment node's upstreams, as declared
    true_buffers,       \* document name -> live upstream -> buffered documents
    received,           \* live upstream -> log of the documents it delivered
    align_out,          \* log of the alignment node's emissions
    wstack,             \* the walk in progress: the calls not yet returned
    wgraph,             \* the walk in progress: its graph
    walked              \* the walk in progress: the calls that added their edge

vars == <<upstreams, downstreams, principle, doc_type, data_address,
          event_stream_name, start_uid, descriptor_uids, subs, state,
          start_document, graph, translation_nodes, principle_nodes,
          constructed, emitted, calls, fed, uidc, err, limit,
          align_args, true_buffers, received, align_out,
          wstack, wgraph, walked>>

topo == <<upstreams, downstreams, principle>>
conf == <<doc_type, data_address, event_stream_name>>
built == <<subs, graph, translation_nodes, principle_nodes, constructed>>
run == <<start_uid, descriptor_uids, state, start_document, emitted, calls,
         fed, uidc, err>>
align == <<align_args, true_buffers, received, align_out>>
steps == <<wstack, wgraph, walked>>

----------------------------------------------------------------------------
(* Bounds *)

\* most documents given to the sources in a run of the pipeline
MaxDocs == 6
\* most documents given to the sources of the two-extraction-node pipelines
MaxProvDocs == 4
\* most documents one upstream delivers to the alignment node
MaxAlignDocs == 3
\* most edges of the dataflow graph the walk is run on
MaxEdges == 3
\* most documents given to the source of the configured pipelines
MaxConfDocs == 3
\* most edges of the graphs with cycles the walk is stepped through
MaxCycleEdges == 3
\* most documents one upstream delivers to the alignment node in sessions
MaxSessDocs == 8

----------------------------------------------------------------------------
(* Nodes.  A node's identity (_hash_or_uid) is its name. *)

SourceNodes == {"S1", "S2"}
StreamNodes == {"S1", "S2", "P"}
FromNodes == {"F1", "F2"}
ToNodes == {"T", "R"}
Nodes == StreamNodes \cup FromNodes \cup ToNodes

NodeOrder == <<"S1", "S2", "F1", "F2", "P", "T", "R">>

ALL == "--ALL THE DOCS--"
doc_names == <<"start", "descriptor", "event", "stop">>
None == 0
NoDoc == <<>>

\* isinstance(node, SimpleFromEventStream)
IsFrom(n) == n \in FromNodes
\* isinstance(node, SimpleToEventStream)
IsTo(n) == n \in ToNodes

\* F applied to the value of e, e evaluated once
Bind(e, F(_)) == CHOOSE r \in {F(v) : v \in {e}} : TRUE

InSeq(x, s) == \E i \in 1..Len(s) : s[i] = x
Range(s) == {s[i] : i \in 1..Len(s)}

----------------------------------------------------------------------------
(* walk_to_translation: the graph is [node |-> sequence of identities in   *)
(* insertion order, edge |-> set of pairs].                                *)

EmptyGraph == [node |-> <<>>, edge |-> {}]

add_node(g, t) == IF InSeq(t, g.node) THEN g ELSE [g EXCEPT !.node = Append(@, t)]

add_edge(g, t, tt) == [add_node(add_node(g, t), tt) EXCEPT !.edge = @ \cup {<<t, tt>>}]

\* has_edge that never finds the edge
has_edge_Never(g, t, tt) == FALSE

has_edge(g, t, tt) == <<t, tt>> \in g.edge

\* the first downstream that is a reconstruction node not yet in the graph
\* (index into node.downstreams, 0 when there is none)
RECURSIVE FirstNewTo(_, _, _)
FirstNewTo(ds, i, g) ==
    IF i > Len(ds) THEN 0
    ELSE IF IsTo(ds[i]) /\ ~InSeq(ds[i], g.node) THEN i
    ELSE FirstNewTo(ds, i + 1, g)

RECURSIVE walk_to_translation(_, _, _)
RECURSIVE WalkUpstreams(_, _, _)
RECURSIVE WalkFrom(_, _, _)

\* for node2 in node.upstreams: walk_to_translation(node2, graph, node)
WalkUpstreams(node, i, g) ==
    Bind(g, LAMBDA g0 :
        IF i > Len(upstreams[node]) THEN g0
        ELSE WalkUpstreams(node, i + 1,
                           walk_to_translation(upstreams[node][i], g0, node)))

\* lines 45-62: the step at a node reached from prior_node
WalkFrom(node, g1, prior_node) ==
    IF has_edge(g1, node, prior_node) THEN g1
    ELSE Bind(add_edge(g1, node, prior_node), LAMBDA g2 :
         Bind(FirstNewTo(downstreams[node], 1, g2), LAMBDA k :
            IF IsFrom(node) THEN g2
            ELSE IF k # 0
                 THEN add_edge(add_node(g2, downstreams[node][k]),
                               node, downstreams[node][k])
                 ELSE WalkUpstreams(node, 1, g2)))

walk_to_translation(node, g, prior_node) ==
    Bind(add_node(g, node), LAMBDA g1 :
        IF prior_node # "" THEN WalkFrom(node, g1, prior_node)
        ELSE WalkUpstreams(node, 1, g1))

----------------------------------------------------------------------------
(* SimpleToEventStream.__init__ *)

\* self.translation_nodes: the extraction and reconstruction nodes of the
\* graph other than self, in the graph's order
TranslationNodes(self, g) ==
    LET keep(n) == (IsFrom(n) \/ IsTo(n)) /\ n # self
    IN SelectSeq(g.node, keep)

\* principle_nodes by the principle flag alone
PrincipleNodes_FlagOnly(tn) ==
    LET keep(n) == IsFrom(n) /\ principle[n]
    IN SelectSeq(tn, keep)

\* principle_nodes as every translation node
PrincipleNodes_All(tn) == tn

\* self.principle_nodes
PrincipleNodes(tn) ==
    LET keep(n) == (IsFrom(n) /\ principle[n]) \/ IsTo(n)
    IN SelectSeq(tn, keep)

\* for p in self.principle_nodes: p.subs.append(self)
RECURSIVE AppendSubs(_, _, _, _)
AppendSubs(self, pn, i, sb) ==
    IF i > Len(pn) THEN sb
    ELSE AppendSubs(self, pn, i + 1, [sb EXCEPT ![pn[i]] = Append(@, self)])

\* the fields __init__ leaves behind, and whether it raised
ToInit(self, sb) ==
    Bind(walk_to_translation(self, EmptyGraph, ""), LAMBDA g :
    Bind(TranslationNodes(self, g), LAMBDA tn :
    Bind(PrincipleNodes(tn), LAMBDA pn :
        [graph |-> g, translation_nodes |-> tn, principle_nodes |-> pn,
         raised |-> pn = <<>>,
         subs |-> IF pn = <<>> THEN sb ELSE AppendSubs(self, pn, 1, sb)])))

Construct(self) ==
    /\ constructed[self] = "no"
    /\ \E c \in {ToInit(self, subs)} :
        /\ graph' = [graph EXCEPT ![self] = c.graph]
        /\ translation_nodes' = [translation_nodes EXCEPT ![self] = c.translation_nodes]
        /\ principle_nodes' = [principle_nodes EXCEPT ![self] = c.principle_nodes]
        /\ subs' = c.subs
        /\ constructed' = [constructed EXCEPT ![self] = IF c.raised THEN "raised" ELSE "ok"]
    /\ UNCHANGED <<topo, conf, run, limit, align, steps>>

----------------------------------------------------------------------------
(* Documents are pairs <<name, doc>>, doc a mapping (record).  The running *)
(* state threaded through one synchronous, depth-first emit is the record  *)
(* st of the fields the handlers assign.                                   *)

Get(doc, k, default) == IF k \in DOMAIN doc THEN doc[k] ELSE default

\* an address component: a single key, or a tuple of keys
Key(k) == [tup |-> FALSE, keys |-> <<k>>]
Tup(ks) == [tup |-> TRUE, keys |-> ks]

\* lines 176-185: walk the address into the document; the result is
\* [status |-> "ok" / "drop" / "raise", val |-> ...]
RECURSIVE Resolve(_, _, _)
Resolve(addr, i, inner) ==
    IF i > Len(addr) THEN [status |-> "ok", val |-> inner]
    ELSE LET da == addr[i] IN
         IF da.tup
         THEN IF \A j \in 1..Len(da.keys) : da.keys[j] \in DOMAIN inner
              THEN Resolve(addr, i + 1, [j \in 1..Len(da.keys) |-> inner[da.keys[j]]])
              ELSE [status |-> "raise", val |-> None]
         ELSE IF da.keys[1] \in DOMAIN inner
              THEN Resolve(addr, i + 1, inner[da.keys[1]])
              ELSE [status |-> "drop", val |-> None]

\* Matches without the test that the event's descriptor is active
Matches_AnyEvent(n, name, doc, uids) ==
    /\ name = doc_type[n]
    /\ \/ name = "descriptor" /\ event_stream_name[n] = Get(doc, "name", ALL)
       \/ name = "event"
       \/ name \in {"start", "stop"}

\* the type-specific match of lines 164-173
Matches(n, name, doc, uids) ==
    /\ name = doc_type[n]
    /\ \/ name = "descriptor" /\ event_stream_name[n] = Get(doc, "name", ALL)
       \/ name = "event" /\ InSeq(doc.descriptor, uids)
       \/ name \in {"start", "stop"}

\* Accepts without the wildcard
Accepts_NoWildcard(n, doc) ==
    event_stream_name[n] = Get(doc, "name", "primary")

\* lines 153-156: the descriptor is one the node's name filter accepts
Accepts(n, doc) ==
    \/ event_stream_name[n] = ALL
    \/ event_stream_name[n] = Get(doc, "name", "primary")

\* parent_uids of the principle nodes only
ParentUids_PrincipleOnly(self, st) ==
    LET has(v) == st.start_uid[v] # None
        tn == SelectSeq(principle_nodes[self], has)
    IN [i \in 1..Len(tn) |-> st.start_uid[tn[i]]]

\* SimpleToEventStream.start_doc: the provenance fields of a new start
ParentUids(self, st) ==
    LET has(v) == st.start_uid[v] # None
        tn == SelectSeq(translation_nodes[self], has)
    IN [i \in 1..Len(tn) |-> st.start_uid[tn[i]]]

ParentNodeMap(self, st) ==
    [v \in {w \in Range(translation_nodes[self]) : st.start_uid[w] # None}
        |-> st.start_uid[v]]

\* CreateDocs.create_doc: the document, and the state it leaves (a fresh
\* uid; for a start, the node's start_uid and its cached start_document)
CreateDoc(self, name, x, st) ==
    LET u == st.uidc + 1
        s1 == [st EXCEPT !.uidc = u]
    IN CASE name = "start" ->
              LET body == [uid |-> u,
                           parent_uids |-> ParentUids(self, st),
                           parent_node_map |-> ParentNodeMap(self, st)]
              IN [doc |-> <<"start", body>>,
                  st |-> [s1 EXCEPT !.start_uid[self] = u,
                                    !.start_document[self] = <<"start", body>>]]
         [] name = "descriptor" ->
              [doc |-> <<"descriptor", [uid |-> u, data_keys |-> <<"img">>]>>,
               st |-> s1]
         [] name = "event" ->
              [doc |-> <<"event", [uid |-> u, data |-> [img |-> x]]>>, st |-> s1]
         [] OTHER ->
              [doc |-> <<"stop", [uid |-> u, run_start |-> st.start_uid[self]]>>,
               st |-> s1]

\* the number of documents of a name in a log
Count(log, name) == Cardinality({i \in 1..Len(log) : log[i][1] = name})

\* the documents of the given name in a log, in order
OfName(log, name) == LET keep(d) == d[1] = name IN SelectSeq(log, keep)

\* the documents of a log from index i on, and the names of a list of documents
DocsFrom(log, i) == [j \in 1..(Len(log) - i + 1) |-> log[i + j - 1]]
NamesOf(docs) == [j \in 1..Len(docs) |-> docs[j][1]]

\* one entry of the call log: the node's state before and after the call, the
\* start_uid of every node when the call began, the documents it emitted
Called(self, method, before, after) ==
    [after EXCEPT !.calls = Append(@,
        [node |-> self, method |-> method,
         pre |-> before.state[self], post |-> after.state[self],
         at |-> before.start_uid,
         out |-> DocsFrom(after.emitted[self], Len(before.emitted[self]) + 1)])]

RECURSIVE emit(_, _, _)
RECURSIVE EmitEach(_, _, _, _)
RECURSIVE update(_, _, _)
RECURSIVE FromUpdate(_, _, _)
RECURSIVE ToUpdate(_, _, _)
RECURSIVE emit_start(_, _, _)
RECURSIVE emit_stop(_, _, _)
RECURSIVE EmitStartEach(_, _, _, _)
RECURSIVE EmitStopEach(_, _, _, _)

\* Stream.emit: log the value, then call each downstream's update in order
EmitEach(ds, i, x, st) ==
    Bind(st, LAMBDA s :
        IF i > Len(ds) \/ s.err THEN s
        ELSE EmitEach(ds, i + 1, x, update(ds[i], x, s)))

emit(n, x, st) ==
    Bind(st, LAMBDA s :
        EmitEach(downstreams[n], 1, x,
                 IF n \in DOMAIN s.emitted
                 THEN [s EXCEPT !.emitted[n] = Append(@, x)] ELSE s))

\* [s.emit_start(x) for s in self.subs]
EmitStartEach(sb, i, x, st) ==
    Bind(st, LAMBDA s :
        IF i > Len(sb) \/ s.err THEN s
        ELSE EmitStartEach(sb, i + 1, x, emit_start(sb[i], x, s)))

\* [s.emit_stop(x) for s in self.subs]
EmitStopEach(sb, i, x, st) ==
    Bind(st, LAMBDA s :
        IF i > Len(sb) \/ s.err THEN s
        ELSE EmitStopEach(sb, i + 1, x, emit_stop(sb[i], x, s)))

\* lines 149-152: a start sets start_uid and calls emit_start on the subs
FromStart(self, x, st) ==
    IF x[1] = "start"
    THEN EmitStartEach(subs[self], 1, x, [st EXCEPT !.start_uid[self] = x[2].uid])
    ELSE st

\* lines 153-157: a descriptor the filter accepts joins the active list
FromDescriptor(self, x, st) ==
    IF ~st.err /\ x[1] = "descriptor" /\ Accepts(self, x[2])
    THEN [st EXCEPT !.descriptor_uids[self] = Append(@, x[2].uid)]
    ELSE st

\* lines 158-162: a stop clears the active list and calls emit_stop on the subs
FromStop(self, x, st) ==
    IF ~st.err /\ x[1] = "stop"
    THEN EmitStopEach(subs[self], 1, x, [st EXCEPT !.descriptor_uids[self] = <<>>])
    ELSE st

\* lines 163-186: emit what the address resolves to in a matching document
FromExtract(self, x, st) ==
    IF st.err \/ ~Matches(self, x[1], x[2], st.descriptor_uids[self]) THEN st
    ELSE Bind(Resolve(data_address[self], 1, x[2]), LAMBDA r :
            CASE r.status = "ok" -> emit(self, r.val, st)
              [] r.status = "drop" -> st
              [] OTHER -> [st EXCEPT !.err = TRUE])

\* update that emits the extracted payload before it notifies the subs
FromUpdate_ExtractFirst(self, x, st) ==
    Bind(st, LAMBDA s0 :
    Bind(FromExtract(self, x, s0), LAMBDA s1 :
    Bind(FromStart(self, x, s1), LAMBDA s2 :
    Bind(FromDescriptor(self, x, s2), LAMBDA s3 :
        FromStop(self, x, s3)))))

\* SimpleFromEventStream.update
FromUpdate(self, x, st) ==
    Bind(st, LAMBDA s0 :
    Bind(FromStart(self, x, s0), LAMBDA s1 :
    Bind(FromDescriptor(self, x, s1), LAMBDA s2 :
    Bind(FromStop(self, x, s2), LAMBDA s3 :
        FromExtract(self, x, s3)))))

\* SimpleToEventStream.emit_stop
emit_stop(self, x, st) ==
    Bind(st, LAMBDA s0 :
    Bind(CreateDoc(self, "stop", x, s0), LAMBDA c :
    Bind(emit(self, c.doc, c.st), LAMBDA s1 :
    Bind(EmitStopEach(subs[self], 1, x, s1), LAMBDA s2 :
        IF s2.err THEN s2
        ELSE Called(self, "emit_stop", s0, [s2 EXCEPT !.state[self] = "stopped"])))))

\* emit_start that emits the descriptor at once, after the start
emit_start_Eager(self, x, st) ==
    Bind(st, LAMBDA s0 :
    Bind(IF s0.state[self] # "stopped" THEN emit_stop(self, x, s0) ELSE s0, LAMBDA sa :
    IF sa.err THEN sa ELSE
    Bind(CreateDoc(self, "start", x, sa), LAMBDA c :
    Bind(emit(self, c.doc, c.st), LAMBDA s1 :
    Bind(CreateDoc(self, "descriptor", x, s1), LAMBDA d :
    Bind(emit(self, d.doc, d.st), LAMBDA s2 :
        IF s2.err THEN s2
        ELSE Called(self, "emit_start", s0,
                    [s2 EXCEPT !.state[self] = "described",
                               !.start_document[self] = NoDoc])))))))

\* emit_start without the emergency stop
emit_start_NoRepair(self, x, st) ==
    Bind(st, LAMBDA s0 :
    Bind(CreateDoc(self, "start", x, s0), LAMBDA c :
    Bind(emit(self, c.doc, c.st), LAMBDA s1 :
    Bind(EmitStartEach(subs[self], 1, x, s1), LAMBDA s2 :
        IF s2.err THEN s2
        ELSE Called(self, "emit_start", s0,
                    [s2 EXCEPT !.state[self] = "started",
                               !.start_document[self] = NoDoc])))))

\* SimpleToEventStream.emit_start
emit_start(self, x, st) ==
    Bind(st, LAMBDA s0 :
    Bind(IF s0.state[self] # "stopped" THEN emit_stop(self, x, s0) ELSE s0, LAMBDA sa :
    IF sa.err THEN sa ELSE
    Bind(CreateDoc(self, "start", x, sa), LAMBDA c :
    Bind(emit(self, c.doc, c.st), LAMBDA s1 :
    Bind(EmitStartEach(subs[self], 1, x, s1), LAMBDA s2 :
        IF s2.err THEN s2
        ELSE Called(self, "emit_start", s0,
                    [s2 EXCEPT !.state[self] = "started",
                               !.start_document[self] = NoDoc]))))))

\* ToDescribe in every state of a session
ToDescribe_Always(self, x, st) ==
    IF st.state[self] \in {"started", "described"}
    THEN Bind(CreateDoc(self, "descriptor", x, st), LAMBDA d :
         Bind(emit(self, d.doc, d.st), LAMBDA s :
            [s EXCEPT !.state[self] = "described"]))
    ELSE st

\* lines 294-296: in state started, emit a descriptor and become described
ToDescribe(self, x, st) ==
    IF st.state[self] = "started"
    THEN Bind(CreateDoc(self, "descriptor", x, st), LAMBDA d :
         Bind(emit(self, d.doc, d.st), LAMBDA s :
            [s EXCEPT !.state[self] = "described"]))
    ELSE st

\* update that emits nothing outside a session
ToUpdate_SessionOnly(self, x, st) ==
    Bind(st, LAMBDA s0 :
    IF s0.state[self] = "stopped" THEN s0 ELSE
    Bind(ToDescribe(self, x, s0), LAMBDA s1 :
    IF s1.err THEN s1 ELSE
    Bind(CreateDoc(self, "event", x, s1), LAMBDA e :
    Bind(emit(self, e.doc, e.st), LAMBDA s2 :
        IF s2.err THEN s2 ELSE Called(self, "update", s0, s2)))))

\* SimpleToEventStream.update
ToUpdate(self, x, st) ==
    Bind(st, LAMBDA s0 :
    Bind(ToDescribe(self, x, s0), LAMBDA s1 :
    IF s1.err THEN s1 ELSE
    Bind(CreateDoc(self, "event", x, s1), LAMBDA e :
    Bind(emit(self, e.doc, e.st), LAMBDA s2 :
        IF s2.err THEN s2 ELSE Called(self, "update", s0, s2)))))

\* the update hook of node n; an ordinary node passes the value through
update(n, x, st) ==
    IF IsFrom(n) THEN FromUpdate(n, x, st)
    ELSE IF IsTo(n) THEN ToUpdate(n, x, st)
    ELSE emit(n, x, st)

----------------------------------------------------------------------------
(* The graphs the walk is run on: at most MaxEdges edges among the nodes    *)
(* other than S2, none leaving the node under construction.                *)

WalkNodes == Nodes \ {"S2"}
PossibleEdges == {e \in (WalkNodes \ {"R"}) \X WalkNodes : e[1] # e[2]}
EdgeSets == {Range(s) : s \in [1..MaxEdges -> PossibleEdges]} \cup {{}}

\* the nodes of S, in NodeOrder, from position i on
RECURSIVE InOrder(_, _)
InOrder(S, i) ==
    IF i > Len(NodeOrder) THEN <<>>
    ELSE IF NodeOrder[i] \in S THEN <<NodeOrder[i]>> \o InOrder(S, i + 1)
    ELSE InOrder(S, i + 1)

UpstreamsOf(E) == [n \in Nodes |-> InOrder({e[1] : e \in {f \in E : f[2] = n}}, 1)]
DownstreamsOf(E) == [n \in Nodes |-> InOrder({e[2] : e \in {f \in E : f[1] = n}}, 1)]

InitAlignIdle ==
    /\ align_args = <<>>
    /\ true_buffers = [k \in {"start", "descriptor", "event", "stop"} |-> [u \in {"A", "B"} |-> <<>>]]
    /\ received = [u \in {"A", "B"} |-> <<>>]
    /\ align_out = <<>>

InitStepsIdle ==
    /\ wstack = <<>>
    /\ wgraph = EmptyGraph
    /\ walked = <<>>

InitConf ==
    /\ doc_type = [n \in FromNodes |-> "event"]
    /\ data_address = [n \in FromNodes |-> <<>>]
    /\ event_stream_name = [n \in FromNodes |-> ALL]

InitRun ==
    /\ start_uid = [n \in FromNodes \cup ToNodes |-> None]
    /\ descriptor_uids = [n \in FromNodes |-> <<>>]
    /\ state = [n \in ToNodes |-> "stopped"]
    /\ start_document = [n \in ToNodes |-> NoDoc]
    /\ emitted = [n \in FromNodes \cup ToNodes |-> <<>>]
    /\ calls = <<>>
    /\ fed = <<>>
    /\ uidc = 0
    /\ err = FALSE

InitWalk ==
    /\ \E E \in EdgeSets :
        /\ upstreams = UpstreamsOf(E)
        /\ downstreams = DownstreamsOf(E)
    /\ principle \in [FromNodes -> BOOLEAN]
    /\ InitConf
    /\ InitRun
    /\ InitStepsIdle
    /\ subs = [n \in Nodes |-> <<>>]
    /\ graph = [n \in ToNodes |-> EmptyGraph]
    /\ translation_nodes = [n \in ToNodes |-> <<>>]
    /\ principle_nodes = [n \in ToNodes |-> <<>>]
    /\ constructed = [n \in ToNodes |-> IF n = "R" THEN "no" ELSE "ok"]
    /\ limit = 0
    /\ InitAlignIdle

NextWalk == Construct("R")

SpecWalk == InitWalk /\ [][NextWalk]_vars

----------------------------------------------------------------------------
(* walk_to_translation call by call: wstack holds a frame for every call   *)
(* that is in its loop over node.upstreams, with the index i of the next   *)
(* upstream to recurse on.  The graphs have at most MaxCycleEdges edges,   *)
(* between any two nodes, so cycles and self-loops occur, through R too.   *)

\* lines 43-62 of a call made with a prior node: the graph the call leaves,
\* whether it added its edge (passed the guard of line 47), whether it goes on
\* to the loop over node.upstreams
WalkEnter(node, g, prior_node) ==
    Bind(add_node(g, node), LAMBDA g1 :
        IF has_edge(g1, node, prior_node)
        THEN [graph |-> g1, passed |-> FALSE, loops |-> FALSE]
        ELSE Bind(add_edge(g1, node, prior_node), LAMBDA g2 :
             Bind(FirstNewTo(downstreams[node], 1, g2), LAMBDA k :
                IF IsFrom(node) THEN [graph |-> g2, passed |-> TRUE, loops |-> FALSE]
                ELSE IF k # 0
                     THEN [graph |-> add_edge(add_node(g2, downstreams[node][k]),
                                              node, downstreams[node][k]),
                           passed |-> TRUE, loops |-> FALSE]
                     ELSE [graph |-> g2, passed |-> TRUE, loops |-> TRUE])))

\* line 67: the call in its loop recurses on its next upstream
WalkCall ==
    /\ wstack # <<>>
    /\ wstack[Len(wstack)].i <= Len(upstreams[wstack[Len(wstack)].node])
    /\ \E f \in {wstack[Len(wstack)]} :
       \E node2 \in {upstreams[f.node][f.i]} :
       \E r \in {WalkEnter(node2, wgraph, f.node)} :
        /\ wgraph' = r.graph
        /\ walked' = IF r.passed THEN Append(walked, <<node2, f.node>>) ELSE walked
        /\ wstack' = IF r.loops
                      THEN Append([wstack EXCEPT ![Len(wstack)].i = f.i + 1],
                                  [node |-> node2, i |-> 1])
                      ELSE [wstack EXCEPT ![Len(wstack)].i = f.i + 1]
    /\ UNCHANGED <<topo, conf, built, run, limit, align>>

\* line 64: the loop of the innermost call is over, the call returns
WalkReturn ==
    /\ wstack # <<>>
    /\ wstack[Len(wstack)].i > Len(upstreams[wstack[Len(wstack)].node])
    /\ wstack' = SubSeq(wstack, 1, Len(wstack) - 1)
    /\ UNCHANGED <<wgraph, walked, topo, conf, built, run, limit, align>>

CycleNodes == {"S1", "F1", "P", "T", "R"}
CycleEdges == CycleNodes \X CycleNodes
CycleEdgeSets == {Range(s) : s \in [1..MaxCycleEdges -> CycleEdges]} \cup {{}}

\* walk_to_translation(self, graph=self.graph) has been called on R
InitSteps ==
    /\ \E E \in CycleEdgeSets :
        /\ upstreams = UpstreamsOf(E)
        /\ downstreams = DownstreamsOf(E)
    /\ principle = [n \in FromNodes |-> TRUE]
    /\ InitConf
    /\ InitRun
    /\ wstack = <<[node |-> "R", i |-> 1]>>
    /\ wgraph = add_node(EmptyGraph, "R")
    /\ walked = <<>>
    /\ subs = [n \in Nodes |-> <<>>]
    /\ graph = [n \in ToNodes |-> EmptyGraph]
    /\ translation_nodes = [n \in ToNodes |-> <<>>]
    /\ principle_nodes = [n \in ToNodes |-> <<>>]
    /\ constructed = [n \in ToNodes |-> IF n = "R" THEN "no" ELSE "ok"]
    /\ limit = 0
    /\ InitAlignIdle

NextSteps == WalkCall \/ WalkReturn

\* a call that has a next step takes it
SpecSteps == InitSteps /\ [][NextSteps]_vars /\ WF_vars(NextSteps)

----------------------------------------------------------------------------
(* The pipeline: documents given to a source run through the graph in one  *)
(* synchronous emit.                                                       *)

\* the descriptor uids the sources announce, and the (owning descriptor,
\* payload key) pairs of the events they send: "d2" is never announced
AnnouncedUids == {"d1"}
EventKinds == {<<"d1", "x">>, <<"d1", "y">>, <<"d2", "x">>}

\* the documents a source may be given next: uids and payloads are fresh
Docs ==
    {<<"start", [uid |-> uidc + 1]>>, <<"stop", [uid |-> uidc + 1]>>}
    \cup {<<"descriptor", [uid |-> d, name |-> "primary"]>> : d \in AnnouncedUids}
    \cup {<<"event", [uid |-> uidc + 1, descriptor |-> k[1],
                      data |-> [key \in {k[2]} |-> uidc + 1]]>> : k \in EventKinds}

Feed(s, x) ==
    /\ Len(fed) < limit
    /\ downstreams[s] # <<>>
    /\ \E st1 \in {emit(s, x,
                        [start_uid |-> start_uid, descriptor_uids |-> descriptor_uids,
                         state |-> state, start_document |-> start_document,
                         emitted |-> emitted, calls |-> calls, uidc |-> uidc + 1,
                         err |-> FALSE])} :
          /\ start_uid' = st1.start_uid
          /\ descriptor_uids' = st1.descriptor_uids
          /\ state' = st1.state
          /\ start_document' = st1.start_document
          /\ emitted' = st1.emitted
          /\ calls' = st1.calls
          /\ uidc' = st1.uidc
          /\ err' = st1.err
    /\ fed' = Append(fed, [source |-> s, x |-> x])
    /\ UNCHANGED <<topo, conf, built, limit, align, steps>>

\* S1 -> F1 -> P -> R, F1 the principal extraction node
PipelineEdges == {<<"S1", "F1">>, <<"F1", "P">>, <<"P", "R">>}

InitBuilt ==
    \E c \in {ToInit("R", [n \in Nodes |-> <<>>])} :
    /\ subs = c.subs
    /\ graph = [n \in ToNodes |-> IF n = "R" THEN c.graph ELSE EmptyGraph]
    /\ translation_nodes = [n \in ToNodes |-> IF n = "R" THEN c.translation_nodes ELSE <<>>]
    /\ principle_nodes = [n \in ToNodes |-> IF n = "R" THEN c.principle_nodes ELSE <<>>]
    /\ constructed = [n \in ToNodes |-> IF ~c.raised THEN "ok" ELSE "raised"]

Init ==
    /\ upstreams = UpstreamsOf(PipelineEdges)
    /\ downstreams = DownstreamsOf(PipelineEdges)
    /\ principle = [n \in FromNodes |-> n = "F1"]
    /\ doc_type = [n \in FromNodes |-> "event"]
    /\ data_address = [n \in FromNodes |-> <<Key("data"), Key("x")>>]
    /\ event_stream_name = [n \in FromNodes |-> ALL]
    /\ InitRun
    /\ InitStepsIdle
    /\ InitBuilt
    /\ limit = MaxDocs
    /\ InitAlignIdle

Next == \E s \in SourceNodes, x \in Docs : Feed(s, x)

Spec == Init /\ [][Next]_vars

----------------------------------------------------------------------------
(* Pipelines with two extraction nodes above R: F1 on S1, F2 on S1 or on  *)
(* S2, both feeding P -> R; F1 is principal, F2 is or is not; F2 extracts  *)
(* data.x from events or the uid from starts.                              *)

ProvEdges(s2) ==
    {<<"S1", "F1">>, <<s2, "F2">>, <<"F1", "P">>, <<"F2", "P">>, <<"P", "R">>}

\* the configurations of F2
ProvConfigs ==
    {[doc_type |-> "event", data_address |-> <<Key("data"), Key("x")>>],
     [doc_type |-> "start", data_address |-> <<Key("uid")>>]}

InitProv ==
    /\ \E s2 \in SourceNodes :
        /\ upstreams = UpstreamsOf(ProvEdges(s2))
        /\ downstreams = DownstreamsOf(ProvEdges(s2))
    /\ principle \in {f \in [FromNodes -> BOOLEAN] : f["F1"]}
    /\ \E c \in ProvConfigs :
        /\ doc_type = [n \in FromNodes |-> IF n = "F2" THEN c.doc_type ELSE "event"]
        /\ data_address = [n \in FromNodes |->
                              IF n = "F2" THEN c.data_address ELSE <<Key("data"), Key("x")>>]
    /\ event_stream_name = [n \in FromNodes |-> ALL]
    /\ InitRun
    /\ InitStepsIdle
    /\ InitBuilt
    /\ limit = MaxProvDocs
    /\ InitAlignIdle

SpecProv == InitProv /\ [][Next]_vars

----------------------------------------------------------------------------
(* The pipeline S1 -> F1 -> P -> R with F1 configured in every way: any    *)
(* document type, one of several addresses, a name filter or the wildcard. *)

\* addresses: empty, single keys at one and two levels, tuple components
Addresses ==
    {<<>>, <<Key("uid")>>, <<Key("data"), Key("y")>>,
     <<Key("data"), Tup(<<"x", "y">>)>>, <<Tup(<<"uid", "name">>)>>}

Filters == {ALL, "primary"}

\* the documents the source may be given next: descriptors named "primary",
\* unnamed and named "other"; events of d1 with data x, y and with data x alone
ConfDocs ==
    {<<"start", [uid |-> uidc + 1]>>, <<"stop", [uid |-> uidc + 1]>>,
     <<"descriptor", [uid |-> "d1", name |-> "primary"]>>,
     <<"descriptor", [uid |-> "d2"]>>,
     <<"descriptor", [uid |-> "d3", name |-> "other"]>>,
     <<"event", [uid |-> uidc + 1, descriptor |-> "d1",
                 data |-> [x |-> uidc + 1, y |-> uidc + 1]]>>,
     <<"event", [uid |-> uidc + 1, descriptor |-> "d1",
                 data |-> [x |-> uidc + 1]]>>}

InitConfigured ==
    /\ upstreams = UpstreamsOf(PipelineEdges)
    /\ downstreams = DownstreamsOf(PipelineEdges)
    /\ principle = [n \in FromNodes |-> n = "F1"]
    /\ doc_type \in {[n \in FromNodes |-> t] : t \in Range(doc_names)}
    /\ data_address \in {[n \in FromNodes |-> a] : a \in Addresses}
    /\ event_stream_name \in {[n \in FromNodes |-> f] : f \in Filters}
    /\ InitRun
    /\ InitStepsIdle
    /\ InitBuilt
    /\ limit = MaxConfDocs
    /\ InitAlignIdle

NextConf == \E x \in ConfDocs : Feed("S1", x)

SpecConf == InitConfigured /\ [][NextConf]_vars

----------------------------------------------------------------------------
(* AlignEventStreams over the upstreams A and B, declared in either order  *)
(* or with a literal document between them.                                *)

AlignUps == {"A", "B"}
LitDoc == <<"start", [w |-> 0]>>

\* isinstance(upstream, Stream)
IsLive(a) == a \in AlignUps

\* the keys whose values are mappings
MappingKeys == {"data"}

\* the override of mapping a by mapping b, one level
Override(a, b) ==
    [k \in DOMAIN a \cup DOMAIN b |-> IF k \in DOMAIN b THEN b[k] ELSE a[k]]

\* ChainDB(a, b) as a dict: b overrides a, nested mappings merge
Merge2(a, b) ==
    [k \in DOMAIN a \cup DOMAIN b |->
        IF k \in DOMAIN a /\ k \in DOMAIN b /\ k \in MappingKeys
        THEN Override(a[k], b[k])
        ELSE IF k \in DOMAIN b THEN b[k] ELSE a[k]]

\* _convert_to_dict(ChainDB(*docs))
RECURSIVE ChainDB(_)
ChainDB(docs) ==
    IF Len(docs) = 1 THEN docs[1]
    ELSE Merge2(ChainDB(SubSeq(docs, 1, Len(docs) - 1)), docs[Len(docs)])

\* _emit with the documents taken in reverse order
AlignEmit_Reversed(tup) ==
    <<tup[1][1], ChainDB([i \in 1..Len(tup) |-> tup[Len(tup) + 1 - i][2]])>>

\* AlignEventStreams._emit: the combined document of a tuple of documents
AlignEmit(tup) ==
    LET names == [i \in 1..Len(tup) |-> tup[i][1]]
        docs == [i \in 1..Len(tup) |-> tup[i][2]]
    IN <<names[1], ChainDB(docs)>>

\* zip.update's tuple: the head of each live upstream's buffer, the literals
\* at their declared positions
Heads(bufs) ==
    [i \in 1..Len(align_args) |->
        IF IsLive(align_args[i]) THEN bufs[align_args[i]][1] ELSE LitDoc]

\* one set of buffers for every document name, as in zip
BufferKey_Shared(name) == "start"

\* lines 356-357: the buffers update selects, self.true_buffers[name]
BufferKey(name) == name

\* zip.update: every live upstream has a buffered document
Ready(bufs) == \A u \in AlignUps : bufs[u] # <<>>

\* the body of the n-th document upstream u delivers, of the given name
BodyOf(u, name, n) ==
    LET base == IF u = "A" THEN [uid |-> 10 + n, x |-> 1, y |-> 2]
                ELSE [uid |-> 20 + n, y |-> 3, z |-> 4]
        data == IF u = "A" THEN [x |-> 1, y |-> 2] ELSE [y |-> 3, z |-> 4]
    IN IF name = "event"
       THEN [k \in DOMAIN base \cup {"data"} |-> IF k = "data" THEN data ELSE base[k]]
       ELSE base

\* update that puts the document at the head of its buffer
AlignUpdate_Lifo(who, x) ==
    /\ Len(received[who]) < limit
    /\ received' = [received EXCEPT ![who] = Append(@, x)]
    /\ \E key \in {BufferKey(x[1])} :
       \E bufs \in {[true_buffers[key] EXCEPT ![who] = <<x>> \o @]} :
        IF Ready(bufs)
        THEN /\ true_buffers' = [true_buffers EXCEPT
                                   ![key] = [u \in AlignUps |-> Tail(bufs[u])]]
             /\ align_out' = Append(align_out,
                                    [tup |-> Heads(bufs), x |-> AlignEmit(Heads(bufs))])
        ELSE /\ true_buffers' = [true_buffers EXCEPT ![key] = bufs]
             /\ align_out' = align_out
    /\ UNCHANGED <<align_args, topo, conf, built, run, limit, steps>>

\* update that leaves the combined documents in their buffers
AlignUpdate_NoPop(who, x) ==
    /\ Len(received[who]) < limit
    /\ received' = [received EXCEPT ![who] = Append(@, x)]
    /\ \E key \in {BufferKey(x[1])} :
       \E bufs \in {[true_buffers[key] EXCEPT ![who] = Append(@, x)]} :
        IF Ready(bufs)
        THEN /\ true_buffers' = [true_buffers EXCEPT
                                   ![key] = bufs]
             /\ align_out' = Append(align_out,
                                    [tup |-> Heads(bufs), x |-> AlignEmit(Heads(bufs))])
        ELSE /\ true_buffers' = [true_buffers EXCEPT ![key] = bufs]
             /\ align_out' = align_out
    /\ UNCHANGED <<align_args, topo, conf, built, run, limit, steps>>

\* AlignEventStreams.update, on a document of upstream who
AlignUpdate(who, x) ==
    /\ Len(received[who]) < limit
    /\ received' = [received EXCEPT ![who] = Append(@, x)]
    /\ \E key \in {BufferKey(x[1])} :
       \E bufs \in {[true_buffers[key] EXCEPT ![who] = Append(@, x)]} :
        IF Ready(bufs)
        THEN /\ true_buffers' = [true_buffers EXCEPT
                                   ![key] = [u \in AlignUps |-> Tail(bufs[u])]]
             /\ align_out' = Append(align_out,
                                    [tup |-> Heads(bufs), x |-> AlignEmit(Heads(bufs))])
        ELSE /\ true_buffers' = [true_buffers EXCEPT ![key] = bufs]
             /\ align_out' = align_out
    /\ UNCHANGED <<align_args, topo, conf, built, run, limit, steps>>

\* the alignment node constructed, nothing delivered
InitAlignNode ==
    /\ align_args \in {<<"A", "B">>, <<"B", "A">>, <<"A", "LIT", "B">>}
    /\ true_buffers = [k \in Range(doc_names) |-> [u \in AlignUps |-> <<>>]]
    /\ received = [u \in AlignUps |-> <<>>]
    /\ align_out = <<>>
    /\ upstreams = UpstreamsOf({})
    /\ downstreams = DownstreamsOf({})
    /\ principle = [n \in FromNodes |-> FALSE]
    /\ InitConf
    /\ InitRun
    /\ InitStepsIdle
    /\ subs = [n \in Nodes |-> <<>>]
    /\ graph = [n \in ToNodes |-> EmptyGraph]
    /\ translation_nodes = [n \in ToNodes |-> <<>>]
    /\ principle_nodes = [n \in ToNodes |-> <<>>]
    /\ constructed = [n \in ToNodes |-> "no"]

InitAlign == InitAlignNode /\ limit = MaxAlignDocs

NextAlign ==
    \E who \in AlignUps, name \in Range(doc_names) :
        AlignUpdate(who, <<name, BodyOf(who, name, Len(received[who]) + 1)>>)

SpecAlign == InitAlign /\ [][NextAlign]_vars

----------------------------------------------------------------------------
(* AlignEventStreams over upstreams that each deliver well-formed sessions *)
(* start, descriptor, events, stop, interleaved in any way.                *)

\* the names a stream of well-formed sessions may continue with
NextName(names, name) ==
    IF names = <<>> \/ names[Len(names)] = "stop" THEN name = "start"
    ELSE IF names[Len(names)] = "start" THEN name = "descriptor"
    ELSE name \in {"event", "stop"}

InitSess == InitAlignNode /\ limit = MaxSessDocs

NextSess ==
    \E who \in AlignUps, name \in Range(doc_names) :
        /\ NextName(NamesOf(received[who]), name)
        /\ AlignUpdate(who, <<name, BodyOf(who, name, Len(received[who]) + 1)>>)

SpecSess == InitSess /\ [][NextSess]_vars

----------------------------------------------------------------------------
(* Properties of the pipeline (Spec) *)

\* the documents R emitted, and their names
Out == emitted["R"]
OutNames == NamesOf(Out)

\* the first index from i on that holds a start or a stop, Len(OutNames) + 1
\* when there is none: BoundaryAfter(i + 1) closes the session opened at i
RECURSIVE BoundaryAfter(_)
BoundaryAfter(i) ==
    IF i > Len(OutNames) THEN Len(OutNames) + 1
    ELSE IF OutNames[i] \in {"start", "stop"} THEN i
    ELSE BoundaryAfter(i + 1)

Starts == {i \in 1..Len(OutNames) : OutNames[i] = "start"}
InSession(i, name) ==
    {k \in (i + 1)..(BoundaryAfter(i + 1) - 1) : OutNames[k] = name}
Closed(i) == BoundaryAfter(i + 1) <= Len(OutNames)

\* C1 as stated: in the documents R emits, every start whose session has
\* ended is followed by exactly one descriptor, placed before the first event,
\* and by a terminating stop.
C1_EverySessionHasOneDescriptor ==
    \A i \in Starts :
        Closed(i) =>
            /\ OutNames[BoundaryAfter(i + 1)] = "stop"
            /\ Cardinality(InSession(i, "descriptor")) = 1
            /\ \A d \in InSession(i, "descriptor"), e \in InSession(i, "event") : d < e

\* C1 as amended: every start R emits is terminated by a stop before any
\* further start; a session holds at most one descriptor; it holds exactly one,
\* placed before the first event, when it holds an event, and none when no
\* payload arrived between the start and the stop.
C1_SessionWellFormed ==
    \A i \in Starts :
        /\ Closed(i) => OutNames[BoundaryAfter(i + 1)] = "stop"
        /\ Cardinality(InSession(i, "descriptor")) <= 1
        /\ InSession(i, "event") # {} => Cardinality(InSession(i, "descriptor")) = 1
        /\ InSession(i, "event") = {} => InSession(i, "descriptor") = {}
        /\ \A d \in InSession(i, "descriptor"), e \in InSession(i, "event") : d < e

\* a closed session with a descriptor and two events, after an empty one
C1_Witness ==
    \E i, j \in Starts :
        /\ i < j /\ Closed(i) /\ Closed(j)
        /\ InSession(i, "descriptor") = {}
        /\ Cardinality(InSession(j, "event")) = 2

CallsOn(n, method) ==
    {k \in 1..Len(calls) : calls[k].node = n /\ calls[k].method = method}

\* C2: emit_start (and emit_stop) never emit a descriptor; a descriptor is
\* emitted only by the first payload arrival after a start, directly after
\* that start and directly before the payload's event, so a session holds at
\* most one.
C2_LazyDescriptorOnce ==
    /\ \A k \in CallsOn("R", "emit_start") \cup CallsOn("R", "emit_stop") :
           ~InSeq("descriptor", NamesOf(calls[k].out))
    /\ \A k \in CallsOn("R", "update") :
           /\ calls[k].pre = "started" =>
                /\ NamesOf(calls[k].out) = <<"descriptor", "event">>
                /\ calls[k].post = "described"
           /\ calls[k].pre # "started" => NamesOf(calls[k].out) = <<"event">>
    /\ \A i \in 1..Len(OutNames) :
           /\ OutNames[i] = "descriptor" =>
                /\ i > 1 /\ OutNames[i - 1] = "start"
                /\ i < Len(OutNames) /\ OutNames[i + 1] = "event"
           /\ OutNames[i] = "start" => Cardinality(InSession(i, "descriptor")) <= 1
           /\ (OutNames[i] = "start" /\ i < Len(OutNames)) =>
                OutNames[i + 1] \in {"descriptor", "stop"}

\* a session in which two payloads arrived: the second emits no descriptor
C2_Witness ==
    \E k \in CallsOn("R", "update") :
        /\ k > 1
        /\ calls[k].pre = "described"
        /\ calls[k - 1].method = "update" /\ calls[k - 1].pre = "started"

\* C3: emit_start in state started or described emits exactly one stop and then
\* the new start; in state stopped it emits the start alone; it always ends in
\* state started.
C3_AutoRepair ==
    \A k \in CallsOn("R", "emit_start") :
        /\ calls[k].pre \in {"started", "described"} =>
               NamesOf(calls[k].out) = <<"stop", "start">>
        /\ calls[k].pre = "stopped" => NamesOf(calls[k].out) = <<"start">>
        /\ calls[k].post = "started"

\* emit_start was called in state described and in state started
C3_Witness ==
    /\ \E k \in CallsOn("R", "emit_start") : calls[k].pre = "described"
    /\ \E k \in CallsOn("R", "emit_start") : calls[k].pre = "started"

\* the documents S1 was given are one session: start, descriptor d, n events
\* of descriptor d carrying data.x, stop
IsSession(n) ==
    /\ Len(fed) = n + 3
    /\ fed[1].x[1] = "start"
    /\ fed[2].x[1] = "descriptor"
    /\ \A k \in 3..(n + 2) :
           /\ fed[k].x[1] = "event"
           /\ fed[k].x[2].descriptor = fed[2].x[2].uid
           /\ "x" \in DOMAIN fed[k].x[2].data
    /\ fed[n + 3].x[1] = "stop"

\* C4: a source session start, descriptor, n events, stop (n >= 1, three in the
\* claim) gives at R exactly start, descriptor, n events carrying the n
\* payloads in their order, stop.
C4_RoundTrip ==
    \A n \in 1..MaxDocs :
        IsSession(n) =>
            /\ Len(Out) = n + 3
            /\ OutNames[1] = "start"
            /\ OutNames[2] = "descriptor"
            /\ \A k \in 3..(n + 2) :
                   /\ OutNames[k] = "event"
                   /\ Out[k][2].data.img = fed[k].x[2].data.x
            /\ OutNames[n + 3] = "stop"

C4_Witness == IsSession(3) /\ Len(Out) = 6

\* C5: given a document, F1 (doc_type event, address data.x) emits data.x when
\* the document is an event whose descriptor is in F1's active list and whose
\* data holds x, and emits nothing otherwise.
C5_ExtractionFilter ==
    [][fed' # fed =>
        LET name == fed'[Len(fed')].x[1]
            doc == fed'[Len(fed')].x[2]
        IN emitted'["F1"] =
              IF /\ name = "event"
                 /\ InSeq(doc.descriptor, descriptor_uids["F1"])
                 /\ "x" \in DOMAIN doc.data
              THEN Append(emitted["F1"], doc.data.x)
              ELSE emitted["F1"]]_vars

\* F1 emitted one event's payload and dropped an event without data.x and an
\* event of a descriptor that is not active
C5_Witness ==
    /\ Len(emitted["F1"]) = 1
    /\ \E k \in 1..Len(fed) :
           /\ fed[k].x[1] = "event" /\ fed[k].x[2].descriptor = "d1"
           /\ "y" \in DOMAIN fed[k].x[2].data
           /\ InSeq("d1", descriptor_uids["F1"])
    /\ \E k \in 1..Len(fed) : fed[k].x[1] = "event" /\ fed[k].x[2].descriptor = "d2"

\* C16: every payload that arrives at R gives exactly one event wrapping it,
\* in arrival order, in every state; the event is preceded by a descriptor in
\* the same update call exactly when the state was started, and update changes
\* the state only from started to described.
C16_OneEventPerPayload ==
    /\ Len(OfName(Out, "event")) = Len(emitted["F1"])
    /\ \A k \in 1..Len(emitted["F1"]) :
           OfName(Out, "event")[k][2].data.img = emitted["F1"][k]
    /\ Cardinality(CallsOn("R", "update")) = Len(emitted["F1"])
    /\ \A k \in CallsOn("R", "update") :
           /\ NamesOf(calls[k].out) =
                 IF calls[k].pre = "started" THEN <<"descriptor", "event">>
                 ELSE <<"event">>
           /\ calls[k].post =
                 IF calls[k].pre = "started" THEN "described" ELSE calls[k].pre

\* payloads arrived at R in state stopped, in state started and in state
\* described
C16_Witness ==
    /\ \E k \in CallsOn("R", "update") : calls[k].pre = "stopped"
    /\ \E k \in CallsOn("R", "update") : calls[k].pre = "started"
    /\ \E k \in CallsOn("R", "update") : calls[k].pre = "described"
    /\ Len(emitted["F1"]) = 3

----------------------------------------------------------------------------
(* Properties of the two-extraction-node pipelines (SpecProv) *)

\* the boundary nodes of R: the extraction and reconstruction nodes of its
\* dependency graph, R apart
Boundary == {n \in Range(graph["R"].node) : (IsFrom(n) \/ IsTo(n)) /\ n # "R"}

\* C6: the start R emits in an emit_start call carries as parent_uids the
\* start_uids of exactly the boundary nodes whose start_uid was set when the
\* call was made, one entry each, and as parent_node_map the map from exactly
\* those nodes to those start_uids.
C6_Provenance ==
    \A k \in CallsOn("R", "emit_start") :
        LET c == calls[k]
            body == c.out[Len(c.out)][2]
            begun == {n \in Boundary : c.at[n] # None}
        IN /\ c.out[Len(c.out)][1] = "start"
           /\ Len(body.parent_uids) = Cardinality(begun)
           /\ \A n \in begun : InSeq(c.at[n], body.parent_uids)
           /\ DOMAIN body.parent_node_map = begun
           /\ \A n \in begun : body.parent_node_map[n] = c.at[n]

\* R emitted a start while F2, a boundary node that is not principal, had
\* received no start, and a later one after F2 had
C6_Witness ==
    /\ Boundary = {"F1", "F2"}
    /\ ~principle["F2"]
    /\ \E k \in CallsOn("R", "emit_start") :
           calls[k].out[Len(calls[k].out)][2].parent_uids = <<calls[k].at["F1"]>>
    /\ \E k \in CallsOn("R", "emit_start") :
           Len(calls[k].out[Len(calls[k].out)][2].parent_uids) = 2

----------------------------------------------------------------------------
(* Properties of the construction of R (SpecWalk) *)

PrincipalBoundary == {n \in Boundary : (IsFrom(n) /\ principle[n]) \/ IsTo(n)}

\* C9: the construction of R raises exactly when no boundary node of its
\* dependency graph is an extraction node flagged principle or another
\* reconstruction node; when it raises R is in no subs list, and when it does
\* not R is once in the subs list of every principal boundary node and in no
\* other subs list.
C9_ConfigurationError ==
    constructed["R"] # "no" =>
        /\ constructed["R"] = "raised" <=> PrincipalBoundary = {}
        /\ constructed["R"] = "raised" => \A n \in Nodes : subs[n] = <<>>
        /\ constructed["R"] = "ok" =>
               \A n \in Nodes :
                   subs[n] = IF n \in PrincipalBoundary THEN <<"R">> ELSE <<>>

\* the construction raised although the walk found a boundary node
C9_Witness ==
    /\ constructed["R"] = "raised"
    /\ Boundary # {}
    /\ \A n \in Nodes : subs[n] = <<>>

\* the nodes reached from R by ascending through nodes of the set Through
RECURSIVE Ascend(_, _)
Ascend(X, Through) ==
    LET Y == X \cup UNION {Range(upstreams[m]) : m \in X \cap Through}
    IN IF Y = X THEN X ELSE Ascend(Y, Through)

UpstreamOfR == Ascend(Range(upstreams["R"]), Nodes)
AboveNoBoundary == Ascend(Range(upstreams["R"]), StreamNodes)

\* C10: the dependency graph holds no node upstream of R that is reached only
\* through an extraction node or another reconstruction node.
C10_WalkStopsAtBoundaries ==
    constructed["R"] # "no" =>
        \A n \in Range(graph["R"].node) :
            n \in UpstreamOfR => n \in AboveNoBoundary

\* what the walk does guarantee: it never ascends through an extraction node
WalkStopsAtExtractionNodes ==
    constructed["R"] # "no" =>
        \A n \in Range(graph["R"].node) :
            n \in UpstreamOfR =>
                n \in Ascend(Range(upstreams["R"]), StreamNodes \cup ToNodes)

----------------------------------------------------------------------------
(* Properties of the configured pipelines (SpecConf) *)

\* the document the source was given last
LastFed == fed[Len(fed)].x

\* in a step: the calls made on reconstruction nodes, the names of the
\* documents R emitted, the values F1 emitted
StepCalls == DocsFrom(calls', Len(calls) + 1)
StepOut == DocsFrom(emitted'["R"], Len(emitted["R"]) + 1)
StepPayloads == DocsFrom(emitted'["F1"], Len(emitted["F1"]) + 1)

\* C11: when F1 extracts a payload from a start (stop) document, R's
\* emit_start (emit_stop) has completed, its start (stop) document emitted,
\* before the payload reaches R: the payload's update call is the last call of
\* the step, it finds R in state started (stopped), and R's event wrapping the
\* payload follows the start (stop) document.
C11_NotifyBeforeEmit ==
    [][(fed' # fed /\ StepPayloads # <<>> /\ fed'[Len(fed')].x[1] \in {"start", "stop"}) =>
        LET name == fed'[Len(fed')].x[1]
            n == Len(StepCalls)
            out == NamesOf(StepOut)
        IN /\ Len(StepPayloads) = 1
           /\ n >= 2
           /\ StepCalls[n].method = "update"
           /\ StepOut[Len(StepOut)][2].data.img = StepPayloads[1]
           /\ name = "start" =>
                /\ StepCalls[n - 1].method = "emit_start"
                /\ StepCalls[n].pre = "started"
                /\ out = (IF state["R"] = "stopped" THEN <<>> ELSE <<"stop">>)
                            \o <<"start", "descriptor", "event">>
           /\ name = "stop" =>
                /\ StepCalls[n - 1].method = "emit_stop"
                /\ StepCalls[n].pre = "stopped"
                /\ out = <<"stop", "event">>]_vars

\* F1 extracts from stop documents: after a start and a stop R has emitted
\* start, stop and the event of the stop's payload, which found R stopped
C11_Witness ==
    /\ doc_type["F1"] = "stop"
    /\ Len(fed) = 2 /\ LastFed[1] = "stop"
    /\ NamesOf(emitted["R"]) = <<"start", "stop", "event">>
    /\ calls[Len(calls)].method = "update" /\ calls[Len(calls)].pre = "stopped"

\* some key the address names is missing from the body at its level
RECURSIVE KeyMissing(_, _, _)
KeyMissing(addr, i, inner) ==
    IF i > Len(addr) THEN FALSE
    ELSE IF \E j \in 1..Len(addr[i].keys) : addr[i].keys[j] \notin DOMAIN inner THEN TRUE
    ELSE IF addr[i].tup THEN FALSE
    ELSE KeyMissing(addr, i + 1, inner[addr[i].keys[1]])

HasTuple(addr) == \E i \in 1..Len(addr) : addr[i].tup

\* in a step: the document given matches F1's type and filter, and a key of
\* F1's address is missing from it
StepMisses ==
    /\ fed' # fed
    /\ Matches("F1", fed'[Len(fed')].x[1], fed'[Len(fed')].x[2], descriptor_uids["F1"])
    /\ KeyMissing(data_address["F1"], 1, fed'[Len(fed')].x[2])

\* in a step: nothing is emitted by F1, the state updates of the document are
\* applied
StepDropsOnly ==
    LET name == fed'[Len(fed')].x[1]
        doc == fed'[Len(fed')].x[2]
    IN /\ StepPayloads = <<>>
       /\ name = "start" =>
            /\ start_uid'["F1"] = doc.uid
            /\ \E k \in 1..Len(StepCalls) : StepCalls[k].method = "emit_start"
       /\ name = "stop" =>
            /\ descriptor_uids'["F1"] = <<>>
            /\ \E k \in 1..Len(StepCalls) : StepCalls[k].method = "emit_stop"
       /\ name = "descriptor" =>
            descriptor_uids'["F1"] =
                IF Accepts("F1", doc) THEN Append(descriptor_uids["F1"], doc.uid)
                ELSE descriptor_uids["F1"]
       /\ name = "event" =>
            /\ descriptor_uids'["F1"] = descriptor_uids["F1"]
            /\ start_uid'["F1"] = start_uid["F1"]

\* C12: for every address, given a matching document from which a key of the
\* address is missing at its level, F1 emits nothing, no error is raised, and
\* the state updates of the document are applied.
C12_SilentDrop ==
    [][StepMisses => (~err' /\ StepDropsOnly)]_vars

\* what the code does guarantee: a missing single key drops the emission
\* without an error, a key missing from a tuple component raises; either way
\* nothing is emitted and the state updates are applied
SingleKeyDropTupleRaise ==
    [][StepMisses =>
        /\ StepDropsOnly
        /\ err' <=> \E i \in 1..Len(data_address["F1"]) :
                        /\ data_address["F1"][i].tup
                        /\ ~KeyMissing(SubSeq(data_address["F1"], 1, i - 1), 1,
                                       fed'[Len(fed')].x[2])]_vars

\* F1 extracts whole descriptors, and no stop has cleared its active list
WholeDescriptors ==
    /\ doc_type["F1"] = "descriptor"
    /\ data_address["F1"] = <<>>
    /\ \A k \in 1..Len(fed) : fed[k].x[1] # "stop"

\* C13: an extraction node of doc_type descriptor emits the descriptors whose
\* name matches its filter, which are the descriptors whose uid it appends to
\* its active list: the uids of the descriptors emitted are the active list.
C13_DescriptorFilterConsistent ==
    WholeDescriptors =>
        descriptor_uids["F1"] = [i \in 1..Len(emitted["F1"]) |-> emitted["F1"][i].uid]

\* what the code does guarantee: every descriptor emitted is in the active list
DescriptorEmittedIsActive ==
    WholeDescriptors =>
        \A i \in 1..Len(emitted["F1"]) :
            InSeq(emitted["F1"][i].uid, descriptor_uids["F1"])

----------------------------------------------------------------------------
(* Lifecycle properties of the two-extraction-node pipelines (SpecProv) *)

\* in a step: S2 is given a start or a stop, and F2, an extraction node on S2
\* and a boundary node of R, is not principal
StepNonPrincipal ==
    /\ fed' # fed
    /\ fed'[Len(fed')].source = "S2"
    /\ fed'[Len(fed')].x[1] \in {"start", "stop"}
    /\ upstreams["F2"] = <<"S2">>
    /\ "F2" \in Boundary
    /\ ~principle["F2"]

\* in a step: nothing changes but F2's start_uid and active list
StepOnlyF2 ==
    /\ state' = state
    /\ emitted' = emitted
    /\ calls' = calls
    /\ start_document' = start_document
    /\ \A n \in DOMAIN start_uid : n # "F2" => start_uid'[n] = start_uid[n]
    /\ descriptor_uids'["F1"] = descriptor_uids["F1"]

\* C14 as stated: a start or stop received by the non-principal boundary node
\* F2 leaves R's state and emissions unchanged; only F2's start_uid and active
\* list change.
C14_OnlyExtractionNodeChanges ==
    [][StepNonPrincipal => StepOnlyF2]_vars

\* C14 as amended: a start or stop received by the non-principal boundary node
\* F2 sets F2's start_uid (start) or clears its active list (stop), makes no
\* emit_start or emit_stop call on R, and R emits no start or stop; when F2's
\* doc_type is not the document's type nothing else changes, and when it is,
\* the extracted payload reaches R as one payload arrival.
C14_PrincipalsDriveLifecycle ==
    [][StepNonPrincipal =>
        LET name == fed'[Len(fed')].x[1]
            doc == fed'[Len(fed')].x[2]
        IN /\ name = "start" => start_uid'["F2"] = doc.uid
           /\ name = "stop" => descriptor_uids'["F2"] = <<>>
           /\ \A k \in 1..Len(StepCalls) : StepCalls[k].method = "update"
           /\ \A k \in 1..Len(StepOut) : StepOut[k][1] \notin {"start", "stop"}
           /\ doc_type["F2"] # name => StepOnlyF2
           /\ doc_type["F2"] = name =>
                /\ Len(StepCalls) = 1
                /\ state'["R"] = IF state["R"] = "started" THEN "described"
                                  ELSE state["R"]]_vars

\* R is in a session begun by F1 when the non-principal F2 receives a start:
\* R stays started, F2 has the start's uid
C14_Witness ==
    /\ Len(fed) >= 2
    /\ fed[Len(fed)].source = "S2" /\ LastFed[1] = "start"
    /\ upstreams["F2"] = <<"S2">> /\ ~principle["F2"] /\ "F2" \in Boundary
    /\ doc_type["F2"] = "event"
    /\ start_uid["F2"] = LastFed[2].uid
    /\ state["R"] = "started"
    /\ NamesOf(emitted["R"]) = <<"start">>

\* the documents S1 was given are one session: a start, then descriptors and
\* events, then a stop
OneUpstreamSession ==
    /\ Len(fed) >= 2
    /\ \A k \in 1..Len(fed) : fed[k].source = "S1"
    /\ fed[1].x[1] = "start"
    /\ fed[Len(fed)].x[1] = "stop"
    /\ \A k \in 2..(Len(fed) - 1) : fed[k].x[1] \in {"descriptor", "event"}

\* C15: when one upstream session reaches R through the two principal
\* extraction nodes F1 and F2 on the same source, R emits exactly one start
\* and exactly one stop, the start first and the stop last.
C15_OneOutputSession ==
    (/\ principle["F1"] /\ principle["F2"]
     /\ upstreams["F1"] = <<"S1">> /\ upstreams["F2"] = <<"S1">>
     /\ OneUpstreamSession) =>
        /\ Count(emitted["R"], "start") = 1
        /\ Count(emitted["R"], "stop") = 1
        /\ emitted["R"][1][1] = "start"
        /\ emitted["R"][Len(emitted["R"])][1] = "stop"

----------------------------------------------------------------------------
(* Properties of the alignment node (SpecAlign) *)

AllLive == \A i \in 1..Len(align_args) : IsLive(align_args[i])

\* C7 as stated: a combined document of A's and B's documents has the name of
\* the first, the union of their keys, B's value on every key of B and A's
\* value on the keys of A alone.
C7_BOverridesEveryKey ==
    AllLive =>
        \A i \in 1..Len(align_out) :
            LET a == align_out[i].tup[1][2]
                b == align_out[i].tup[2][2]
                m == align_out[i].x[2]
            IN /\ align_out[i].x[1] = align_out[i].tup[1][1]
               /\ DOMAIN m = DOMAIN a \cup DOMAIN b
               /\ \A k \in DOMAIN b : m[k] = b[k]
               /\ \A k \in DOMAIN a \ DOMAIN b : m[k] = a[k]

\* C7 as amended: a combined document of A's and B's documents has the name
\* of the first, the union of their keys, A's value on the keys of A alone,
\* B's value on the keys of B alone and on the keys of both whose values are
\* not mappings; on a key of both whose values are mappings (an event's data)
\* the value is the two mappings combined by the same law.
C7_MergeOverride ==
    AllLive =>
        \A i \in 1..Len(align_out) :
            LET a == align_out[i].tup[1][2]
                b == align_out[i].tup[2][2]
                m == align_out[i].x[2]
            IN /\ align_out[i].x[1] = align_out[i].tup[1][1]
               /\ DOMAIN m = DOMAIN a \cup DOMAIN b
               /\ \A k \in DOMAIN a \ DOMAIN b : m[k] = a[k]
               /\ \A k \in DOMAIN b \ DOMAIN a : m[k] = b[k]
               /\ \A k \in (DOMAIN a \cap DOMAIN b) \ MappingKeys : m[k] = b[k]
               /\ \A k \in DOMAIN a \cap DOMAIN b \cap MappingKeys :
                      /\ DOMAIN m[k] = DOMAIN a[k] \cup DOMAIN b[k]
                      /\ \A j \in DOMAIN b[k] : m[k][j] = b[k][j]
                      /\ \A j \in DOMAIN a[k] \ DOMAIN b[k] : m[k][j] = a[k][j]

\* {x:1, y:2} and {y:3, z:4} were combined into {x:1, y:3, z:4}, as the bodies
\* of two starts and as the data of two events
C7_Witness ==
    /\ AllLive
    /\ \E i \in 1..Len(align_out) :
           /\ align_out[i].x[1] = "start"
           /\ align_out[i].x[2].x = 1 /\ align_out[i].x[2].y = 3
           /\ align_out[i].x[2].z = 4
    /\ \E i \in 1..Len(align_out) :
           /\ align_out[i].x[1] = "event"
           /\ align_out[i].x[2].data = [x |-> 1, y |-> 3, z |-> 4]

Combined(name) == Cardinality({i \in 1..Len(align_out) : align_out[i].x[1] = name})
Least(a, b) == IF a <= b THEN a ELSE b

\* C8: with live upstreams only, for every document name the number of
\* combined documents emitted is the least number of documents of that name an
\* upstream delivered; every combined document is built from one document of
\* that name of each upstream; the documents an upstream delivered beyond that
\* number stay in its buffer, in order.
C8_LockStep ==
    AllLive =>
        \A name \in Range(doc_names) :
            LET n == Least(Count(received["A"], name), Count(received["B"], name))
            IN /\ Combined(name) = n
               /\ \A i \in 1..Len(align_out) :
                      \A j \in 1..Len(align_out[i].tup) :
                          align_out[i].tup[j][1] = align_out[i].x[1]
               /\ \A u \in AlignUps :
                      true_buffers[name][u] =
                          SubSeq(OfName(received[u], name), n + 1,
                                 Count(received[u], name))

\* A delivered two events and a stop, B one event: one event was combined,
\* A's second event and its stop stay buffered
C8_Witness ==
    /\ AllLive
    /\ Count(received["A"], "event") = 2 /\ Count(received["A"], "stop") = 1
    /\ Count(received["B"], "event") = 1 /\ Len(received["B"]) = 1
    /\ Combined("event") = 1 /\ Len(align_out) = 1
    /\ Len(true_buffers["event"]["A"]) = 1
    /\ Len(true_buffers["stop"]["A"]) = 1

\* the combined documents of a name, in the order of their emission
CombinedOf(name) == LET keep(e) == e.x[1] = name IN SelectSeq(align_out, keep)

\* C17: for every document name and every k, the k-th combined document of
\* that name is built from the k-th document of that name received from each
\* live upstream, placed in declaration order; with live upstreams only, no
\* combined document is built from documents of different names.
C17_FifoPairing ==
    /\ \A name \in Range(doc_names) :
           \A k \in 1..Len(CombinedOf(name)) :
               /\ Len(CombinedOf(name)[k].tup) = Len(align_args)
               /\ \A i \in 1..Len(align_args) :
                      IsLive(align_args[i]) =>
                          /\ k <= Count(received[align_args[i]], name)
                          /\ CombinedOf(name)[k].tup[i] =
                                 OfName(received[align_args[i]], name)[k]
    /\ AllLive =>
           \A e \in Range(align_out) :
               \A i \in 1..Len(e.tup) : e.tup[i][1] = e.x[1]

\* B, declared first, delivered an event, a start and a second event before
\* A delivered two events: two events were combined, B's first, each time
\* the k-th of B with the k-th of A
C17_Witness ==
    /\ align_args = <<"B", "A">>
    /\ NamesOf(received["B"]) = <<"event", "start", "event">>
    /\ NamesOf(received["A"]) = <<"event", "event">>
    /\ Len(align_out) = 2
    /\ align_out[2].tup = <<received["B"][3], received["A"][2]>>

----------------------------------------------------------------------------
(* Properties of the walk, call by call (SpecSteps) *)

NoPairTwice == \A i, j \in 1..Len(walked) : walked[i] = walked[j] => i = j

\* C18: the walk terminates on every graph, cycles among ordinary nodes and
\* through R included: every call made with a prior node finds its edge
\* present and returns or adds it, so no ordered pair (node, prior node) is
\* recursed on twice and the calls are at most the pairs of nodes; the graph
\* the walk ends with is the graph of walk_to_translation.
C18_WalkTerminates ==
    /\ <>(wstack = <<>>)
    /\ [](NoPairTwice /\ Range(walked) \subseteq wgraph.edge)
    /\ [](wstack = <<>> => wgraph = walk_to_translation("R", EmptyGraph, ""))

\* the walk has returned on the graph in which P is upstream of R, R upstream
\* of P (a cycle through R) and P upstream of itself (a cycle at an ordinary
\* node), having recursed on each of the three pairs once
C18_Witness ==
    /\ wstack = <<>>
    /\ wgraph.edge = {<<"P", "R">>, <<"R", "P">>, <<"P", "P">>}
    /\ Len(walked) = 3

----------------------------------------------------------------------------
(* Properties of the alignment of sessions (SpecSess) *)

\* the names of the combined documents, in the order of their emission
CombinedNames == [k \in 1..Len(align_out) |-> align_out[k].x[1]]

\* both upstreams have delivered the same sessions, all of them ended
SameSessions ==
    /\ received["A"] # <<>>
    /\ NamesOf(received["A"]) = NamesOf(received["B"])
    /\ received["A"][Len(received["A"])][1] = "stop"

\* a stream of names is in well-formed session order
WellFormed(names) ==
    \A k \in 1..Len(names) : NextName(SubSeq(names, 1, k - 1), names[k])

\* C19: when the upstreams have delivered the same well-formed sessions, in
\* whatever interleaving, the combined stream is in well-formed session order:
\* its k-th document combines the k-th document of every live upstream, so it
\* has the sessions of the upstreams, document for document.
C19_SessionOrderPreserved ==
    SameSessions =>
        /\ WellFormed(CombinedNames)
        /\ CombinedNames = NamesOf(received["A"])
        /\ \A k \in 1..Len(align_out) :
               \A i \in 1..Len(align_args) :
                   IsLive(align_args[i]) =>
                       align_out[k].tup[i] = received[align_args[i]][k]

\* both upstreams delivered two sessions of one event each; the combined
\* stream is the two sessions
C19_Witness ==
    /\ SameSessions
    /\ NamesOf(received["B"]) =
          <<"start", "descriptor", "event", "stop",
            "start", "descriptor", "event", "stop">>
    /\ Len(align_out) = 8

----------------------------------------------------------------------------
(* Sessions at the extraction node (Spec) *)

\* the index in a feed log of the latest start, 0 when there is none
RECURSIVE LatestStart(_, _)
LatestStart(log, i) ==
    IF i = 0 THEN 0
    ELSE IF log[i].x[1] = "start" THEN i
    ELSE LatestStart(log, i - 1)

\* the descriptor of the uid was received after the latest start of the log
SinceLatestStart(log, uid) ==
    \E k \in (LatestStart(log, Len(log)) + 1)..Len(log) :
        log[k].x[1] = "descriptor" /\ log[k].x[2].uid = uid

\* C20: F1 (doc_type event) emits the payload of an event only when the
\* event's descriptor was received after the most recent start; its active
\* list holds only uids of descriptors received since that start.
C20_NoCrossSessionExtraction ==
    [][fed' # fed =>
        /\ \A i \in 1..Len(descriptor_uids'["F1"]) :
               SinceLatestStart(fed', descriptor_uids'["F1"][i])
        /\ (fed'[Len(fed')].x[1] = "event" /\ StepPayloads # <<>>) =>
               SinceLatestStart(fed, fed'[Len(fed')].x[2].descriptor)]_vars

\* what the code does guarantee: the active list holds the uids of the
\* descriptors received since the latest stop
ActiveSinceLatestStop ==
    \A i \in 1..Len(descriptor_uids["F1"]) :
        \E k \in 1..Len(fed) :
            /\ fed[k].x[1] = "descriptor" /\ fed[k].x[2].uid = descriptor_uids["F1"][i]
            /\ \A j \in k..Len(fed) : fed[j].x[1] # "stop"

====
